---- MODULE Spec2Model ----
(***************************************************************************)
(* A model of the mediator of src/mediator.go: the handler, behaviour and  *)
(* event-handler registries, the pipeline composed by mediator.Send, the   *)
(* generic Send wrapper with its final conversion, and the event fan-out   *)
(* of mediator.SendEvent.                                                  *)
(*                                                                         *)
(* Caller-supplied bodies (handlers, behaviours, listeners) are opaque     *)
(* functions: what a body does in one dispatch (whether it calls next(),   *)
(* what it returns) is an input of that dispatch.                          *)
(***************************************************************************)
EXTENDS Integers, Sequences, FiniteSets, TLC

VARIABLES handlers, behaviours, eventHandlers, latest, call, input, prior,
          goroutines

vars == <<handlers, behaviours, eventHandlers, latest, call, input, prior,
          goroutines>>

(***************************************************************************)
(* Bounds of the model.                                                    *)
(***************************************************************************)
\* The registrations made on the mediator, of all three kinds together.
MaxRegistrations == 4

(***************************************************************************)
(* Types (reflect.Type).  "A" and "B" are concrete types, "I" is an        *)
(* interface type that A implements and B does not.  NilType is what       *)
(* reflect.TypeOf gives for a nil interface value.                         *)
(***************************************************************************)
ConcreteTypes == {"A", "B"}

InterfaceTypes == {"I"}

Types == ConcreteTypes \cup InterfaceTypes

NilType == "nil"

Implements(t, u) == t = "A" /\ u = "I"

AssignableTo(t, u) == t = u \/ (u \in InterfaceTypes /\ Implements(t, u))

(***************************************************************************)
(* Values held in an `any`: a dynamic type and a payload.  Payload 0 is    *)
(* the zero value of the type; Nil is the nil interface value.             *)
(***************************************************************************)
Nil == [t |-> NilType, v |-> 0]

Value(t, v) == [t |-> t, v |-> v]

\* internal.TypeOf[T](): the type itself, wherever it is instantiated.
TypeOf(T) == T

\* internal.Zero[T]() stored into an `any`: the zero value of a concrete
\* type, the nil interface for an interface type.
Zero(T) == IF T \in InterfaceTypes THEN Nil ELSE Value(T, 0)

\* reflect.TypeOf(x) for x an `any`.
ReflectTypeOf(x) == x.t

\* The type assertion x.(T): holds iff x is not nil and its dynamic type is
\* T (T concrete) or implements T (T an interface).
TypeAssertOk(x, T) == x # Nil /\ AssignableTo(x.t, T)

(***************************************************************************)
(* Errors.                                                                 *)
(***************************************************************************)
Error(kind, stage, t1, t2, t3) ==
    [kind |-> kind, stage |-> stage, t1 |-> t1, t2 |-> t2, t3 |-> t3]

NoErr == Error("nil", 0, "", "", "")

\* fmt.Errorf("no handler registered for request type %s", ...)
HandlerNotFound(requestType) == Error("HandlerNotFound", 0, requestType, "", "")

\* fmt.Errorf("wrong response type %s was used for request %s, expected ...")
ResponseTypeMismatch(responseType, requestType, expected) ==
    Error("ResponseTypeMismatch", 0, responseType, requestType, expected)

\* The error a caller-supplied body returns; stage names the body.
BodyError(kind, stage) == Error(kind, stage, "", "", "")

(***************************************************************************)
(* Maps (Go map): a function whose DOMAIN is the set of keys present.      *)
(***************************************************************************)
EmptyMap == [k \in {} |-> 0]

MapPut(m, k, x) == [y \in DOMAIN m \cup {k} |-> IF y = k THEN x ELSE m[y]]

(***************************************************************************)
(* Registry entries.  A handlerInfo's id and a behaviourInfo's id name the *)
(* registered function: the id of a handler is its position among all      *)
(* registered handlers, replaced ones included, the id of a behaviour its  *)
(* position among all registered behaviours, the id of a listener its      *)
(* position among all registered listeners.                                *)
(***************************************************************************)
handlerInfo(requestType, responseType, id) ==
    [requestType |-> requestType, responseType |-> responseType, id |-> id]

behaviourInfo(requestType, id) == [requestType |-> requestType, id |-> id]

eventHandlerInfo(eventType, id) == [eventType |-> eventType, id |-> id]

(***************************************************************************)
(* What a caller-supplied body does in one dispatch.                       *)
(***************************************************************************)
\* A handler returns a TResponse (its zero value or another value) and
\* possibly an error.
HandlerBodies == [zero : BOOLEAN, fails : BOOLEAN]

\* What a behaviour may return of its own: an `any` and possibly an error.
BehaviourOuts == [t : {"A", NilType}, fails : BOOLEAN]

\* A behaviour calls next() or not, and returns next()'s result as is
\* (own = FALSE) or a result of its own.
PassBody == [calls |-> 1, own |-> FALSE, out |-> [t |-> NilType, fails |-> FALSE]]

BehaviourBodies ==
    {PassBody} \cup [calls : {0, 1}, own : {TRUE}, out : BehaviourOuts]

\* A listener returns an error or nil.
ListenerBodies == BOOLEAN

\* The payload of the non-zero value the handler with a given id returns,
\* and of the value the behaviour with a given id returns.
HandlerPayload(id) == 10 + id

BehaviourPayload(id) == id

(***************************************************************************)
(* The record of one dispatch: what ran, in order, and how it ended.       *)
(***************************************************************************)
Event(ev, i, val, err) == [ev |-> ev, i |-> i, val |-> val, err |-> err]

Result(panic, val, err, trace) ==
    [panic |-> panic, val |-> val, err |-> err, trace |-> trace]

Call(op, req, want, r) ==
    [op |-> op, req |-> req, want |-> want,
     outcome |-> IF r.panic THEN "panic" ELSE "returned",
     val |-> r.val, err |-> r.err, trace |-> r.trace]

NoCall ==
    [op |-> "none", req |-> NilType, want |-> NilType, outcome |-> "none",
     val |-> Nil, err |-> NoErr, trace |-> <<>>]

(***************************************************************************)
(* input is what the caller passed to the Send recorded in call: the       *)
(* request, TResponse, and what the bodies do.  prior is an earlier Send   *)
(* of the caller, with its input and the registries it ran on.             *)
(***************************************************************************)
Input(request, TResponse, plan, hbody) ==
    [request |-> request, TResponse |-> TResponse, plan |-> plan, hbody |-> hbody]

NoInput == Input(Nil, NilType, <<>>, [zero |-> TRUE, fails |-> FALSE])

Dispatched(c, in, hs, bs) ==
    [call |-> c, input |-> in, handlers |-> hs, behaviours |-> bs]

NoPrior == Dispatched(NoCall, NoInput, <<>>, <<>>)

\* What is kept of a Send once the registries it ran on have changed: the
\* request type and the behaviours it invoked, without what they returned.
Outline(c) ==
    LET pres == SelectSeq(c.trace, LAMBDA e : e.ev = "pre")
    IN [c EXCEPT !.want = NilType, !.outcome = "returned", !.val = Nil, !.err = NoErr,
                 !.trace = [j \in 1..Len(pres) |-> Event("pre", pres[j].i, Nil, NoErr)]]

\* prior after a registration of a behaviour: the outline of the Send the
\* caller repeated on the registries as they were just before it, if any.
Earlier(p, bs) ==
    IF p.call.op = "Send" /\ p.behaviours = bs /\ p.input # NoInput
    THEN Dispatched(Outline(p.call), NoInput, p.handlers, p.behaviours)
    ELSE NoPrior

(***************************************************************************)
(* Goroutines that call the mediator concurrently, each one operation, in  *)
(* the steps in which the operation reads and writes the fields of the     *)
(* mediator.  pc is the position in the operation, entry the registry      *)
(* entry it registers, local what it read last, snap the map as it was     *)
(* when its map write began, in its arguments when it is a dispatch and    *)
(* out what the dispatch returned.                                         *)
(***************************************************************************)
Goroutines == {1, 2}

Goroutine(pc, op, entry, local, snap, in, out) ==
    [pc |-> pc, op |-> op, entry |-> entry, local |-> local, snap |-> snap,
     in |-> in, out |-> out]

NoEntry == [requestType |-> NilType, responseType |-> NilType, id |-> 0]

IdleGoroutine == Goroutine("idle", "none", NoEntry, <<>>, <<>>, NoInput, NoCall)

(***************************************************************************)
(* latest[T] is the history of RegisterHandler for request type T: the     *)
(* number of calls made, and the id and the response type of the handler   *)
(* of the last one.                                                        *)
(***************************************************************************)
NoRegistration == [n |-> 0, id |-> 0, responseType |-> NilType]

(***************************************************************************)
(* NewMediator: empty registries.                                          *)
(***************************************************************************)
Init ==
    /\ handlers = EmptyMap
    /\ behaviours = <<>>
    /\ eventHandlers = EmptyMap
    /\ latest = [t \in Types |-> NoRegistration]
    /\ call = NoCall
    /\ input = NoInput
    /\ prior = NoPrior
    /\ goroutines = [g \in Goroutines |-> IdleGoroutine]

RECURSIVE CountHandlerRegs(_, _)
CountHandlerRegs(f, S) ==
    IF S = {} THEN 0
    ELSE LET x == CHOOSE y \in S : TRUE IN f[x].n + CountHandlerRegs(f, S \ {x})

\* The number of RegisterHandler calls made so far.
HandlerRegs == CountHandlerRegs(latest, Types)

RECURSIVE CountListeners(_, _)
CountListeners(m, S) ==
    IF S = {} THEN 0
    ELSE LET x == CHOOSE y \in S : TRUE IN Len(m[x]) + CountListeners(m, S \ {x})

\* The number of RegisterEventHandler calls made so far.
ListenerRegs == CountListeners(eventHandlers, DOMAIN eventHandlers)

\* The number of registrations made so far.
Registrations == HandlerRegs + Len(behaviours) + ListenerRegs

\* No goroutine has been started: the mediator is used by one caller, one
\* operation after the other.
Idle == \A g \in Goroutines : goroutines[g].pc = "idle"

(***************************************************************************)
(* Registration.                                                           *)
(***************************************************************************)
\* A registration that keeps the handler already registered for the type.
PutHandlerKeepFirst(hs, info) ==
    IF info.requestType \in DOMAIN hs THEN hs ELSE MapPut(hs, info.requestType, info)

\* m.handlers[TypeOf[TRequest]()] = handlerInfo{...}
PutHandler(hs, info) == MapPut(hs, info.requestType, info)

RegisterHandler ==
    /\ Idle
    /\ Registrations < MaxRegistrations
    /\ \E TRequest \in Types, TResponse \in Types :
         /\ handlers' = PutHandler(handlers,
                handlerInfo(TypeOf(TRequest), TypeOf(TResponse), HandlerRegs + 1))
         /\ latest' = [latest EXCEPT ![TRequest] =
                            [n |-> @.n + 1, id |-> HandlerRegs + 1,
                             responseType |-> TResponse]]
    /\ call' = NoCall
    /\ input' = NoInput
    /\ prior' = NoPrior
    /\ UNCHANGED <<behaviours, eventHandlers, goroutines>>

\* m.behaviours = append(m.behaviours, behaviourInfo{...})
AppendBehaviour(bs, requestType) ==
    Append(bs, behaviourInfo(requestType, Len(bs) + 1))

RegisterBehaviour ==
    /\ Idle
    /\ Registrations < MaxRegistrations
    /\ \E TRequest \in Types :
         behaviours' = AppendBehaviour(behaviours, TypeOf(TRequest))
    /\ call' = NoCall
    /\ input' = NoInput
    /\ prior' = Earlier(prior, behaviours)
    /\ UNCHANGED <<handlers, eventHandlers, latest, goroutines>>

\* The listener sequence of eventType, created on first use, with one more
\* entry, stored back under eventType.
AddEventHandler(m, eventType) ==
    LET hs == IF eventType \in DOMAIN m THEN m[eventType] ELSE <<>>
        id == CountListeners(m, DOMAIN m) + 1
    IN MapPut(m, eventType, Append(hs, eventHandlerInfo(eventType, id)))

RegisterEventHandler ==
    /\ Idle
    /\ Registrations < MaxRegistrations
    /\ \E TEvent \in Types :
         eventHandlers' = AddEventHandler(eventHandlers, TypeOf(TEvent))
    /\ call' = NoCall
    /\ input' = NoInput
    /\ prior' = NoPrior
    /\ UNCHANGED <<handlers, behaviours, latest, goroutines>>

(***************************************************************************)
(* mediator.getBehaviours: the behaviours the request type is assignable   *)
(* to, in the order of m.behaviours.                                       *)
(***************************************************************************)
RECURSIVE getBehavioursFrom(_, _, _, _)
getBehavioursFrom(bs, i, requestType, result) ==
    IF i > Len(bs) THEN result
    ELSE getBehavioursFrom(bs, i + 1, requestType,
            IF AssignableTo(requestType, bs[i].requestType)
            THEN Append(result, bs[i])
            ELSE result)

\* A match on the identical type only, without assignability.
getBehavioursExact(bs, requestType) ==
    SelectSeq(bs, LAMBDA b : b.requestType = requestType)

\* A list of matching behaviours that is used up by the first Send on the
\* registries as they are.
getBehavioursOnce(bs, requestType) ==
    IF call = NoCall THEN getBehavioursFrom(bs, 1, requestType, <<>>) ELSE <<>>

\* A list of matching behaviours taken from the registry as it was at an
\* earlier Send.
getBehavioursCached(bs, requestType) ==
    getBehavioursFrom(IF prior = NoPrior THEN bs ELSE prior.behaviours,
                      1, requestType, <<>>)

getBehaviours(bs, requestType) == getBehavioursFrom(bs, 1, requestType, <<>>)

(***************************************************************************)
(* The pipeline of mediator.Send.  A step (Next) is a closure: the         *)
(* innermost one invokes the handler, every other one invokes a behaviour  *)
(* with the step built before it as its next.                              *)
(***************************************************************************)
HandlerStep(info) == [kind |-> "handler", info |-> info]

BehaviourStep(b, prev) == [kind |-> "behaviour", behaviour |-> b, prev |-> prev]

\* for i := len(behaviours) - 1; i >= 0; i-- { prev := step; step = ... }
RECURSIVE ComposeFrom(_, _, _)
ComposeFrom(bs, i, step) ==
    IF i < 1 THEN step
    ELSE ComposeFrom(bs, i - 1, BehaviourStep(bs[i], step))

\* A fold from the first behaviour to the last, which leaves the last
\* registered behaviour outermost.
RECURSIVE ComposeForwardFrom(_, _, _)
ComposeForwardFrom(bs, i, step) ==
    IF i > Len(bs) THEN step
    ELSE ComposeForwardFrom(bs, i + 1, BehaviourStep(bs[i], step))

ComposeForward(bs, info) == ComposeForwardFrom(bs, 1, HandlerStep(info))

\* A loop that wraps every behaviour twice.
ComposeTwice(bs, info) == ComposeFrom(bs \o bs, 2 * Len(bs), HandlerStep(info))

Compose(bs, info) == ComposeFrom(bs, Len(bs), HandlerStep(info))

\* The value a handler body returns, as a TResponse stored into an `any`.
HandlerValue(info, hbody) ==
    IF hbody.zero THEN Zero(info.responseType)
    ELSE Value(CHOOSE c \in ConcreteTypes : AssignableTo(c, info.responseType),
               HandlerPayload(info.id))

\* The value a behaviour body returns of its own.
BehaviourValue(b, body) ==
    IF body.out.t = NilType THEN Nil ELSE Value(body.out.t, BehaviourPayload(b.id))

Panic(trace) == Result(TRUE, Nil, NoErr, trace)

\* step(): runs the closure.  plan gives the body of each matching
\* behaviour, hbody the body of the handler.
RECURSIVE Invoke(_, _, _, _, _)
Invoke(step, request, plan, hbody, trace) ==
    IF step.kind = "handler"
    THEN \* handler(ctx, request.(TRequest))
         IF ~TypeAssertOk(request, step.info.requestType) THEN Panic(trace)
         ELSE LET val == HandlerValue(step.info, hbody)
                  err == IF hbody.fails
                         THEN BodyError("handler", step.info.id) ELSE NoErr
              IN Result(FALSE, val, err,
                        Append(trace, Event("handler", step.info.id, val, err)))
    ELSE \* behaviour(ctx, request.(TRequest), next)
         LET b == step.behaviour
             body == plan[b.id]
         IN IF ~TypeAssertOk(request, b.requestType) THEN Panic(trace)
            ELSE LET entered == Append(trace, Event("pre", b.id, Nil, NoErr))
                     inner == IF body.calls = 1
                              THEN Invoke(step.prev, request, plan, hbody, entered)
                              ELSE Result(FALSE, Nil, NoErr, entered)
                     val == IF body.own THEN BehaviourValue(b, body) ELSE inner.val
                     err == IF body.own
                            THEN IF body.out.fails
                                 THEN BodyError("behaviour", b.id) ELSE NoErr
                            ELSE inner.err
                 IN IF inner.panic THEN inner
                    ELSE Result(FALSE, val, err,
                                Append(inner.trace, Event("post", b.id, val, err)))

(***************************************************************************)
(* mediator.Send                                                           *)
(***************************************************************************)
mediatorSend(request, requestType, responseType, plan, hbody) ==
    IF requestType \notin DOMAIN handlers
    THEN \* requestType.Name() dereferences a nil reflect.Type
         IF requestType = NilType THEN Panic(<<>>)
         ELSE Result(FALSE, Nil, HandlerNotFound(requestType), <<>>)
    ELSE LET info == handlers[requestType]
         IN IF info.responseType # responseType
            THEN Result(FALSE, Nil,
                        ResponseTypeMismatch(responseType, requestType, info.responseType),
                        <<>>)
            ELSE LET step == Compose(getBehaviours(behaviours, requestType), info)
                     r == Invoke(step, request, plan, hbody, <<>>)
                 IN IF r.panic THEN r
                    ELSE IF r.err # NoErr THEN Result(FALSE, Nil, r.err, r.trace)
                    ELSE r

(***************************************************************************)
(* Send[TResponse]: the dispatch, the substitution of the zero value for a *)
(* nil response, and the conversion response.(TResponse).                  *)
(***************************************************************************)
SendResult(request, TResponse, plan, hbody) ==
    LET requestType == ReflectTypeOf(request)
        r == mediatorSend(request, requestType, TypeOf(TResponse), plan, hbody)
        response == IF r.val = Nil THEN Zero(TResponse) ELSE r.val
    IN IF r.panic THEN r
       ELSE IF TypeAssertOk(response, TResponse)
       THEN Result(FALSE, response, r.err, r.trace)
       ELSE Panic(r.trace)

\* The requests sent: a value of a concrete type, or nil.
Requests == {Value(t, 1) : t \in ConcreteTypes} \cup {Nil}

\* What the caller-supplied bodies do in one dispatch: plan gives the body
\* of each behaviour of bs[i..] by id, hbody the body of the handler.  A
\* body that is never invoked (behind a behaviour that does not call
\* next(), or in a dispatch that fails before the pipeline runs) is left at
\* a default, since what it would do is immaterial.
IdleHandlerBody == [zero |-> TRUE, fails |-> FALSE]

Bodies(plan, hbody) == [plan |-> plan, hbody |-> hbody]

RECURSIVE AllPass(_, _)
AllPass(bs, i) ==
    IF i > Len(bs) THEN EmptyMap ELSE MapPut(AllPass(bs, i + 1), bs[i].id, PassBody)

RECURSIVE Plans(_, _)
Plans(bs, i) ==
    IF i > Len(bs) THEN {Bodies(EmptyMap, h) : h \in HandlerBodies}
    ELSE {Bodies(MapPut(p.plan, bs[i].id, body), p.hbody) :
             p \in Plans(bs, i + 1), body \in {b \in BehaviourBodies : b.calls = 1}}
         \cup {Bodies(MapPut(AllPass(bs, i + 1), bs[i].id, body), IdleHandlerBody) :
                 body \in {b \in BehaviourBodies : b.calls = 0}}

\* Whether a dispatch reaches the pipeline.
ReachesPipeline(request, TResponse) ==
    /\ ReflectTypeOf(request) \in DOMAIN handlers
    /\ handlers[ReflectTypeOf(request)].responseType = TypeOf(TResponse)

BodiesFor(request, TResponse) ==
    IF ReachesPipeline(request, TResponse)
    THEN Plans(getBehaviours(behaviours, ReflectTypeOf(request)), 1)
    ELSE {Bodies(EmptyMap, IdleHandlerBody)}

\* One dispatch is recorded per state of the registries: call is NoCall
\* until a request or an event is sent, and again after a registration.
Send ==
    /\ Idle
    /\ call = NoCall
    /\ \E request \in Requests, TResponse \in Types :
         \E bodies \in BodiesFor(request, TResponse) :
            /\ call' = Call("Send", ReflectTypeOf(request), TResponse,
                            SendResult(request, TResponse, bodies.plan, bodies.hbody))
            /\ input' = Input(request, TResponse, bodies.plan, bodies.hbody)
    /\ UNCHANGED <<handlers, behaviours, eventHandlers, latest, prior, goroutines>>

\* The caller sends the request of the recorded Send once more: the same
\* request and TResponse, to bodies that do the same again.
SendAgain ==
    /\ Idle
    /\ call.op = "Send"
    /\ prior # Dispatched(call, input, handlers, behaviours)
    /\ prior' = Dispatched(call, input, handlers, behaviours)
    /\ call' = Call("Send", ReflectTypeOf(input.request), input.TResponse,
                    SendResult(input.request, input.TResponse, input.plan, input.hbody))
    /\ UNCHANGED <<handlers, behaviours, eventHandlers, latest, input, goroutines>>

\* A fan-out that goes on after a listener's error and returns the last one.
RECURSIVE FanOutAll(_, _, _, _, _)
FanOutAll(hs, i, evt, plan, trace) ==
    IF i > Len(hs) THEN Result(FALSE, Nil, NoErr, trace)
    ELSE IF ~TypeAssertOk(evt, hs[i].eventType) THEN Panic(trace)
    ELSE LET err == IF plan[i] THEN BodyError("listener", hs[i].id) ELSE NoErr
             rest == FanOutAll(hs, i + 1, evt, plan,
                               Append(trace, Event("listener", hs[i].id, Nil, err)))
         IN IF rest.panic \/ rest.err # NoErr \/ err = NoErr THEN rest
            ELSE Result(FALSE, Nil, err, rest.trace)

(***************************************************************************)
(* mediator.SendEvent and SendEvent[TEvent]                                *)
(***************************************************************************)
\* for _, eventHandler := range eventHandlers { ... }
RECURSIVE FanOut(_, _, _, _, _)
FanOut(hs, i, evt, plan, trace) ==
    IF i > Len(hs) THEN Result(FALSE, Nil, NoErr, trace)
    ELSE \* eventHandler(ctx, evt.(TEvent))
         IF ~TypeAssertOk(evt, hs[i].eventType) THEN Panic(trace)
         ELSE LET err == IF plan[i] THEN BodyError("listener", hs[i].id) ELSE NoErr
                  ran == Append(trace, Event("listener", hs[i].id, Nil, err))
              IN IF err # NoErr THEN Result(FALSE, Nil, err, ran)
                 ELSE FanOut(hs, i + 1, evt, plan, ran)

\* A lookup that takes the listeners of the first registered type the event
\* type is assignable to.
mediatorSendEventWidened(evt, eventType, plan) ==
    LET keys == {k \in DOMAIN eventHandlers : AssignableTo(eventType, k)}
    IN IF keys = {} THEN Result(FALSE, Nil, NoErr, <<>>)
       ELSE LET k == CHOOSE x \in keys : x \notin ConcreteTypes \/ keys \subseteq ConcreteTypes
                hs == eventHandlers[k]
            IN FanOut(hs, 1, evt,
                      [j \in 1..Len(hs) |-> j \in DOMAIN plan /\ plan[j]], <<>>)

mediatorSendEvent(evt, eventType, plan) ==
    IF eventType \notin DOMAIN eventHandlers
    THEN Result(FALSE, Nil, NoErr, <<>>)
    ELSE FanOut(eventHandlers[eventType], 1, evt, plan, <<>>)

SendEventResult(evt, TEvent, plan) == mediatorSendEvent(evt, TypeOf(TEvent), plan)

\* The events sent as a TEvent: a value of TEvent, which for an interface
\* type is a value of an implementing type or nil.
Events(TEvent) ==
    IF TEvent \in InterfaceTypes
    THEN {Value(c, 1) : c \in {d \in ConcreteTypes : Implements(d, TEvent)}} \cup {Nil}
    ELSE {Value(TEvent, 1)}

ListenersOf(TEvent) ==
    IF TEvent \in DOMAIN eventHandlers THEN eventHandlers[TEvent] ELSE <<>>

SendEvent ==
    /\ Idle
    /\ call = NoCall
    /\ \E TEvent \in Types :
         \E evt \in Events(TEvent),
            plan \in [1..Len(ListenersOf(TEvent)) -> ListenerBodies] :
            call' = Call("SendEvent", ReflectTypeOf(evt), TEvent,
                         SendEventResult(evt, TEvent, plan))
    /\ UNCHANGED <<handlers, behaviours, eventHandlers, latest, input, prior,
                   goroutines>>

(***************************************************************************)
(* Registration from several goroutines.  The mediator has no lock: a      *)
(* registration is a read of a field of the mediator followed by a write,  *)
(* and another goroutine may run between the two.  A write of a Go map     *)
(* that overlaps another access of the same map is a data race: the        *)
(* runtime may stop the program (fatal error: concurrent map writes), or   *)
(* the write may go through, on the map as it is or as it was when the     *)
(* write began.                                                            *)
(***************************************************************************)
\* The goroutines start once the registries leave room, within the bound,
\* for one operation of each of them.
Room == Registrations + Cardinality(Goroutines) <= MaxRegistrations

Started == \E g \in Goroutines : goroutines[g].pc # "idle"

Fatal == \E g \in Goroutines : goroutines[g].pc = "fatal"

MayStart(g) == goroutines[g].pc = "idle" /\ ~Fatal /\ (Started \/ Room)

\* The number naming the function that goroutine g registers.
GoroutineId(g) == MaxRegistrations + g

\* Another goroutine is inside a write of the map that op writes.
OtherWrites(g, op) ==
    \E h \in Goroutines \ {g} : goroutines[h].pc = "writing" /\ goroutines[h].op = op

\* How a map access that may overlap a write of another goroutine goes on.
AfterAccess(g, op, pc) == IF OtherWrites(g, op) THEN {pc, "fatal"} ELSE {pc}

\* RegisterBehaviour, the read: append(m.behaviours, ...) reads m.behaviours.
LoadBehaviours(g) ==
    /\ MayStart(g)
    /\ \E TRequest \in Types :
         goroutines' = [goroutines EXCEPT ![g] =
             Goroutine("loaded", "RegisterBehaviour",
                       behaviourInfo(TypeOf(TRequest), GoroutineId(g)),
                       behaviours, <<>>, NoInput, NoCall)]
    /\ UNCHANGED <<handlers, behaviours, eventHandlers, latest, call, input, prior>>

\* RegisterBehaviour, the write: m.behaviours = the slice read, with one
\* more entry.
StoreBehaviours(g) ==
    /\ ~Fatal
    /\ goroutines[g].pc = "loaded"
    /\ behaviours' = Append(goroutines[g].local, goroutines[g].entry)
    /\ goroutines' = [goroutines EXCEPT ![g].pc = "done"]
    /\ UNCHANGED <<handlers, eventHandlers, latest, call, input, prior>>

\* RegisterEventHandler, the read: eventHandlers, ok := m.eventHandlers[eventType]
ReadEventHandlers(g) ==
    /\ MayStart(g)
    /\ \E TEvent \in Types, pc \in AfterAccess(g, "RegisterEventHandler", "read") :
         goroutines' = [goroutines EXCEPT ![g] =
             Goroutine(pc, "RegisterEventHandler",
                       eventHandlerInfo(TypeOf(TEvent), GoroutineId(g)),
                       IF TypeOf(TEvent) \in DOMAIN eventHandlers
                       THEN eventHandlers[TypeOf(TEvent)] ELSE <<>>,
                       <<>>, NoInput, NoCall)]
    /\ UNCHANGED <<handlers, behaviours, eventHandlers, latest, call, input, prior>>

\* RegisterEventHandler, the write m.eventHandlers[eventType] = eventHandlers
\* begins.
BeginWriteEventHandlers(g) ==
    /\ ~Fatal
    /\ goroutines[g].pc = "read"
    /\ \E pc \in AfterAccess(g, "RegisterEventHandler", "writing") :
         goroutines' = [goroutines EXCEPT ![g].pc = pc, ![g].snap = eventHandlers]
    /\ UNCHANGED <<handlers, behaviours, eventHandlers, latest, call, input, prior>>

\* The write ends: the slice read, with one more entry, is stored under
\* eventType.
EndWriteEventHandlers(g) ==
    /\ ~Fatal
    /\ goroutines[g].pc = "writing"
    /\ goroutines[g].op = "RegisterEventHandler"
    /\ \/ /\ \E m \in {eventHandlers, goroutines[g].snap} :
               eventHandlers' = MapPut(m, goroutines[g].entry.eventType,
                                       Append(goroutines[g].local, goroutines[g].entry))
          /\ goroutines' = [goroutines EXCEPT ![g].pc = "done"]
       \/ /\ OtherWrites(g, "RegisterEventHandler") \/ goroutines[g].snap # eventHandlers
          /\ goroutines' = [goroutines EXCEPT ![g].pc = "fatal"]
          /\ UNCHANGED eventHandlers
    /\ UNCHANGED <<handlers, behaviours, latest, call, input, prior>>

\* RegisterHandler: the write m.handlers[TypeOf[TRequest]()] = ... begins.
BeginWriteHandlers(g) ==
    /\ MayStart(g)
    /\ \E TRequest \in Types, TResponse \in Types,
          pc \in AfterAccess(g, "RegisterHandler", "writing") :
         goroutines' = [goroutines EXCEPT ![g] =
             Goroutine(pc, "RegisterHandler",
                       handlerInfo(TypeOf(TRequest), TypeOf(TResponse), GoroutineId(g)),
                       <<>>, handlers, NoInput, NoCall)]
    /\ UNCHANGED <<handlers, behaviours, eventHandlers, latest, call, input, prior>>

\* The write ends.
EndWriteHandlers(g) ==
    /\ ~Fatal
    /\ goroutines[g].pc = "writing"
    /\ goroutines[g].op = "RegisterHandler"
    /\ \/ /\ \E m \in {handlers, goroutines[g].snap} :
               handlers' = PutHandler(m, goroutines[g].entry)
          /\ latest' = [latest EXCEPT ![goroutines[g].entry.requestType] =
                            [n |-> @.n + 1, id |-> goroutines[g].entry.id,
                             responseType |-> goroutines[g].entry.responseType]]
          /\ goroutines' = [goroutines EXCEPT ![g].pc = "done"]
       \/ /\ OtherWrites(g, "RegisterHandler") \/ goroutines[g].snap # handlers
          /\ goroutines' = [goroutines EXCEPT ![g].pc = "fatal"]
          /\ UNCHANGED <<handlers, latest>>
    /\ UNCHANGED <<behaviours, eventHandlers, call, input, prior>>

RegisterStep(g) ==
    \/ LoadBehaviours(g)
    \/ StoreBehaviours(g)
    \/ ReadEventHandlers(g)
    \/ BeginWriteEventHandlers(g)
    \/ EndWriteEventHandlers(g)
    \/ BeginWriteHandlers(g)
    \/ EndWriteHandlers(g)

(***************************************************************************)
(* Dispatch from several goroutines, after the registrations: Send and     *)
(* SendEvent in the steps in which they read the fields of the mediator.   *)
(* The goroutines dispatch the same request or event to bodies that do the *)
(* same.                                                                   *)
(***************************************************************************)
\* mediator.Send, the return when no handler is registered.
NotFound(requestType) ==
    IF requestType = NilType THEN Panic(<<>>)
    ELSE Result(FALSE, Nil, HandlerNotFound(requestType), <<>>)

\* mediator.Send, after step(): if err != nil { return nil, err }
Finish(r) ==
    IF r.panic THEN r
    ELSE IF r.err # NoErr THEN Result(FALSE, Nil, r.err, r.trace)
    ELSE r

\* Send[TResponse], after m.Send: the zero value for a nil response, and
\* response.(TResponse).
Convert(r, TResponse) ==
    LET response == IF r.val = Nil THEN Zero(TResponse) ELSE r.val
    IN IF r.panic THEN r
       ELSE IF TypeAssertOk(response, TResponse)
       THEN Result(FALSE, response, r.err, r.trace)
       ELSE Panic(r.trace)

SendInputs ==
    UNION {{Input(a[1], a[2], b.plan, b.hbody) : b \in BodiesFor(a[1], a[2])} :
              a \in Requests \X Types}

SendEventInputs ==
    UNION {{Input(a[2], a[1], plan, IdleHandlerBody) :
               plan \in [1..Len(ListenersOf(a[1])) -> ListenerBodies]} :
              a \in {b \in Types \X (Requests \cup {Value("A", 1)}) : b[2] \in Events(b[1])}}

\* What goroutine g dispatches: what the goroutine started before it does,
\* if there is one.
InputsOf(g, op, inputs) ==
    IF \A h \in Goroutines \ {g} : goroutines[h].pc = "idle" THEN inputs
    ELSE {in \in inputs : \E h \in Goroutines \ {g} :
                              goroutines[h].op = op /\ goroutines[h].in = in}

\* Send: requestType := reflect.TypeOf(request); info, ok := m.handlers[requestType]
BeginSend(g) ==
    /\ MayStart(g)
    /\ \E in \in InputsOf(g, "Send", SendInputs) :
         goroutines' = [goroutines EXCEPT ![g] =
             Goroutine("looked", "Send", NoEntry,
                       IF ReflectTypeOf(in.request) \in DOMAIN handlers
                       THEN <<handlers[ReflectTypeOf(in.request)]>> ELSE <<>>,
                       <<>>, in, NoCall)]
    /\ UNCHANGED <<handlers, behaviours, eventHandlers, latest, call, input, prior>>

\* mediator.Send: the two checks, then behaviours := m.getBehaviours(requestType)
MatchSend(g) ==
    LET in == goroutines[g].in
        requestType == ReflectTypeOf(in.request)
        found == goroutines[g].local
        returns(r) == [goroutines EXCEPT
                          ![g].pc = "done",
                          ![g].out = Call("Send", requestType, in.TResponse,
                                          Convert(r, in.TResponse))]
    IN /\ goroutines[g].pc = "looked"
       /\ goroutines' =
            IF found = <<>> THEN returns(NotFound(requestType))
            ELSE IF found[1].responseType # TypeOf(in.TResponse)
            THEN returns(Result(FALSE, Nil,
                                ResponseTypeMismatch(TypeOf(in.TResponse), requestType,
                                                     found[1].responseType),
                                <<>>))
            ELSE [goroutines EXCEPT ![g].pc = "matched",
                                    ![g].snap = getBehaviours(behaviours, requestType)]
       /\ UNCHANGED <<handlers, behaviours, eventHandlers, latest, call, input, prior>>

\* mediator.Send: the closures are built and step() runs them; Send converts
\* the response.
RunSend(g) ==
    LET in == goroutines[g].in
        step == Compose(goroutines[g].snap, goroutines[g].local[1])
        r == Invoke(step, in.request, in.plan, in.hbody, <<>>)
    IN /\ goroutines[g].pc = "matched"
       /\ goroutines' = [goroutines EXCEPT
              ![g].pc = "done",
              ![g].out = Call("Send", ReflectTypeOf(in.request), in.TResponse,
                              Convert(Finish(r), in.TResponse))]
       /\ UNCHANGED <<handlers, behaviours, eventHandlers, latest, call, input, prior>>

\* A lookup that stores an empty listener sequence under an event type
\* that has none.
BeginSendEventInserting(g) ==
    /\ MayStart(g)
    /\ \E in \in InputsOf(g, "SendEvent", SendEventInputs) :
         /\ goroutines' = [goroutines EXCEPT ![g] =
                Goroutine("listening", "SendEvent", NoEntry,
                          IF TypeOf(in.TResponse) \in DOMAIN eventHandlers
                          THEN <<eventHandlers[TypeOf(in.TResponse)]>> ELSE <<>>,
                          <<>>, in, NoCall)]
         /\ eventHandlers' =
                IF TypeOf(in.TResponse) \in DOMAIN eventHandlers THEN eventHandlers
                ELSE MapPut(eventHandlers, TypeOf(in.TResponse), <<>>)
    /\ UNCHANGED <<handlers, behaviours, latest, call, input, prior>>

\* SendEvent: eventType := TypeOf[TEvent](); eventHandlers, ok := m.eventHandlers[eventType]
BeginSendEvent(g) ==
    /\ MayStart(g)
    /\ \E in \in InputsOf(g, "SendEvent", SendEventInputs) :
         goroutines' = [goroutines EXCEPT ![g] =
             Goroutine("listening", "SendEvent", NoEntry,
                       IF TypeOf(in.TResponse) \in DOMAIN eventHandlers
                       THEN <<eventHandlers[TypeOf(in.TResponse)]>> ELSE <<>>,
                       <<>>, in, NoCall)]
    /\ UNCHANGED <<handlers, behaviours, eventHandlers, latest, call, input, prior>>

\* mediator.SendEvent: if !ok { return nil }, and the loop over the listeners.
RunSendEvent(g) ==
    LET in == goroutines[g].in
        found == goroutines[g].local
        r == IF found = <<>> THEN Result(FALSE, Nil, NoErr, <<>>)
             ELSE FanOut(found[1], 1, in.request, in.plan, <<>>)
    IN /\ goroutines[g].pc = "listening"
       /\ goroutines' = [goroutines EXCEPT
              ![g].pc = "done",
              ![g].out = Call("SendEvent", ReflectTypeOf(in.request), in.TResponse, r)]
       /\ UNCHANGED <<handlers, behaviours, eventHandlers, latest, call, input, prior>>

DispatchStep(g) ==
    \/ BeginSend(g)
    \/ MatchSend(g)
    \/ RunSend(g)
    \/ BeginSendEvent(g)
    \/ RunSendEvent(g)

(***************************************************************************)
(* Specifications.  Requests use the handler and behaviour registries and  *)
(* events the listener registry; neither reads the other's.                *)
(***************************************************************************)
NextSend == RegisterHandler \/ RegisterBehaviour \/ Send

NextEvent == RegisterEventHandler \/ SendEvent

NextAgain == NextSend \/ SendAgain

Setup == RegisterHandler \/ RegisterBehaviour \/ RegisterEventHandler

NextRegister == Setup \/ \E g \in Goroutines : RegisterStep(g)

NextDispatch == Setup \/ \E g \in Goroutines : DispatchStep(g)

Next ==
    \/ NextSend
    \/ NextEvent
    \/ SendAgain
    \/ \E g \in Goroutines : RegisterStep(g) \/ DispatchStep(g)

Spec == Init /\ [][Next]_vars

SpecSend == Init /\ [][NextSend]_vars

SpecEvent == Init /\ [][NextEvent]_vars

SpecAgain == Init /\ [][NextAgain]_vars

SpecRegister == Init /\ [][NextRegister]_vars

SpecDispatch == Init /\ [][NextDispatch]_vars

(***************************************************************************)
(* The dispatch recorded in call, read against the registries it ran on.   *)
(***************************************************************************)
IsSend == call.op = "Send"

IsSendEvent == call.op = "SendEvent"

\* The dispatch passed both checks of mediator.Send.
Reached ==
    /\ IsSend
    /\ call.req \in DOMAIN handlers
    /\ handlers[call.req].responseType = call.want

\* The registered behaviours whose type the request's type is assignable to.
Matching == SelectSeq(behaviours, LAMBDA b : AssignableTo(call.req, b.requestType))

IdsOf(bs) == [j \in 1..Len(bs) |-> bs[j].id]

\* The stage and id of each entry of a trace.
Shape(tr) == [j \in 1..Len(tr) |-> <<tr[j].ev, tr[j].i>>]

\* The ids of the behaviours invoked, in the order of their invocation.
PreIds ==
    LET pres == SelectSeq(call.trace, LAMBDA e : e.ev = "pre")
    IN [j \in 1..Len(pres) |-> pres[j].i]

IsPrefix(s, t) == Len(s) <= Len(t) /\ \A j \in 1..Len(s) : s[j] = t[j]

\* The behaviour entered at trace[j] returned without calling next().
ShortCircuitAt(j) ==
    /\ j < Len(call.trace)
    /\ call.trace[j].ev = "pre"
    /\ call.trace[j + 1].ev = "post"

NoShortCircuit == \A j \in 1..Len(call.trace) : ~ShortCircuitAt(j)

\* pre(B1), ..., pre(Bn), handler, post(Bn), ..., post(B1)
OnionTrace(bs, hid) ==
    [j \in 1..(2 * Len(bs) + 1) |->
        IF j <= Len(bs) THEN <<"pre", bs[j].id>>
        ELSE IF j = Len(bs) + 1 THEN <<"handler", hid>>
        ELSE <<"post", bs[2 * Len(bs) + 2 - j].id>>]

(***************************************************************************)
(* C1: when every matching behaviour B1..Bn (in registration order) calls  *)
(* next() exactly once, a Send that passes the two dispatch checks runs    *)
(* exactly pre(B1), ..., pre(Bn), the handler, post(Bn), ..., post(B1).    *)
(***************************************************************************)
C1_OnionOrder ==
    (Reached /\ NoShortCircuit) =>
        Shape(call.trace) = OnionTrace(Matching, handlers[call.req].id)

C1_Witness ==
    /\ Reached
    /\ NoShortCircuit
    /\ Len(Matching) >= 2
    /\ Len(call.trace) = 2 * Len(Matching) + 1

(***************************************************************************)
(* C5: the registry holds, for each request type, no handler if none was   *)
(* registered and otherwise exactly the handler registered last for it;    *)
(* a Send invokes only that handler and reaches the pipeline only when the *)
(* expected response type is the one that handler declares.                *)
(***************************************************************************)
C5_LastHandlerWins ==
    /\ \A T \in Types :
         IF latest[T].n = 0 THEN T \notin DOMAIN handlers
         ELSE /\ T \in DOMAIN handlers
              /\ handlers[T] = handlerInfo(T, latest[T].responseType, latest[T].id)
    /\ IsSend =>
         /\ \A j \in 1..Len(call.trace) :
              call.trace[j].ev = "handler" =>
                 /\ call.req \in Types
                 /\ call.trace[j].i = latest[call.req].id
         /\ call.trace # <<>> =>
              /\ call.req \in Types
              /\ call.want = latest[call.req].responseType

C5_Witness ==
    /\ IsSend
    /\ call.req \in Types
    /\ latest[call.req].n >= 2
    /\ \E j \in 1..Len(call.trace) : call.trace[j].ev = "handler"

(***************************************************************************)
(* C10: the behaviours a Send invokes are registered behaviours whose type *)
(* the request's runtime type is assignable to, in registration order and  *)
(* each once: the invoked ones are a prefix of the matching ones, and all  *)
(* of the matching ones when none of them returns without calling next().  *)
(***************************************************************************)
C10_MatchingBehaviours ==
    IsSend =>
        /\ IsPrefix(PreIds, IdsOf(Matching))
        /\ (Reached /\ NoShortCircuit) => PreIds = IdsOf(Matching)

C10_Witness ==
    /\ Reached
    /\ call.req = "A"
    /\ Len(behaviours) = 3
    /\ behaviours[1].requestType = "I"
    /\ behaviours[2].requestType = "B"
    /\ behaviours[3].requestType = "A"
    /\ PreIds = <<1, 3>>

\* The handler's entry in the trace, when the handler ran.
HandlerRan == \E j \in 1..Len(call.trace) : call.trace[j].ev = "handler"

\* A value of the pipeline as the TResponse handed to the caller: the zero
\* value for a nil.
AsResponse(v, TResponse) == IF v = Nil THEN Zero(TResponse) ELSE v

\* From trace[j] on, every behaviour returns what the one it wraps returned.
PassedBackFrom(j) ==
    \A k \in j..Len(call.trace) :
        /\ call.trace[k].ev = "post"
        /\ call.trace[k].val = call.trace[j].val
        /\ call.trace[k].err = call.trace[j].err

(***************************************************************************)
(* C2: when a matching behaviour Bk returns, without calling next(), a     *)
(* value that is nil or a TResponse, and B1..Bk-1 pass its result back as  *)
(* is, then neither the handler nor a behaviour behind Bk is invoked and   *)
(* Send returns Bk's result: its error, and with a nil error its value.    *)
(***************************************************************************)
C2_ShortCircuit ==
    IsSend =>
        \A j \in 1..Len(call.trace) :
            (/\ ShortCircuitAt(j)
             /\ PassedBackFrom(j + 1)
             /\ (call.trace[j + 1].val = Nil
                    \/ AssignableTo(call.trace[j + 1].val.t, call.want))) =>
                /\ ~HandlerRan
                /\ \A k \in (j + 1)..Len(call.trace) : call.trace[k].ev # "pre"
                /\ call.outcome = "returned"
                /\ call.err = call.trace[j + 1].err
                /\ call.err = NoErr =>
                       call.val = AsResponse(call.trace[j + 1].val, call.want)

\* What of C2 the code does satisfy: nothing behind Bk runs, and a Send that
\* returns hands back Bk's result.
C2_NothingBehindRuns ==
    IsSend =>
        \A j \in 1..Len(call.trace) :
            ShortCircuitAt(j) =>
                /\ ~HandlerRan
                /\ \A k \in (j + 1)..Len(call.trace) : call.trace[k].ev # "pre"
                /\ (PassedBackFrom(j + 1) /\ call.outcome = "returned") =>
                      /\ call.err = call.trace[j + 1].err
                      /\ call.err = NoErr =>
                             call.val = AsResponse(call.trace[j + 1].val, call.want)

(***************************************************************************)
(* C3: a Send for a request whose type has no registered handler returns   *)
(* the HandlerNotFound error, and invokes no handler and no behaviour.     *)
(***************************************************************************)
C3_HandlerNotFound ==
    (IsSend /\ call.req \notin DOMAIN handlers) =>
        /\ call.outcome = "returned"
        /\ call.err = HandlerNotFound(call.req)
        /\ call.trace = <<>>

\* What of C3 the code does satisfy: nothing is invoked, and a Send that
\* returns, returns HandlerNotFound.
C3_NothingInvoked ==
    (IsSend /\ call.req \notin DOMAIN handlers) =>
        /\ call.trace = <<>>
        /\ call.outcome = "returned" => call.err = HandlerNotFound(call.req)

(***************************************************************************)
(* C4: a Send whose expected response type is not the response type the    *)
(* registered handler declares returns the ResponseTypeMismatch error, and *)
(* invokes no handler and no behaviour.                                    *)
(***************************************************************************)
C4_ResponseTypeMismatch ==
    (/\ IsSend
     /\ call.req \in DOMAIN handlers
     /\ handlers[call.req].responseType # call.want) =>
        /\ call.outcome = "returned"
        /\ call.err = ResponseTypeMismatch(call.want, call.req,
                                           handlers[call.req].responseType)
        /\ call.trace = <<>>

\* What of C4 the code does satisfy.
C4_NothingInvoked ==
    (/\ IsSend
     /\ call.req \in DOMAIN handlers
     /\ handlers[call.req].responseType # call.want) =>
        /\ call.trace = <<>>
        /\ call.outcome = "returned" =>
              call.err = ResponseTypeMismatch(call.want, call.req,
                                              handlers[call.req].responseType)

(***************************************************************************)
(* C6: with no behaviours registered, for every handler registered under a *)
(* request type T, a Send of a request assignable to T with that handler's *)
(* response type invokes that handler, and a Send that returns hands back  *)
(* the handler's error and, with a nil error, its response.                *)
(***************************************************************************)
C6_HandlerReached ==
    (IsSend /\ behaviours = <<>>) =>
        \A T \in DOMAIN handlers :
            (AssignableTo(call.req, T) /\ call.want = handlers[T].responseType) =>
                /\ Len(call.trace) = 1
                /\ call.trace[1].ev = "handler"
                /\ call.trace[1].i = handlers[T].id
                /\ call.outcome = "returned" =>
                      /\ call.err = call.trace[1].err
                      /\ call.err = NoErr =>
                             call.val = AsResponse(call.trace[1].val, call.want)

\* What of C6 the code does satisfy: the same, for the handler registered
\* under the request's own runtime type.
C6_ExactTypeReached ==
    (IsSend /\ behaviours = <<>> /\ Reached) =>
        /\ Len(call.trace) = 1
        /\ call.trace[1].ev = "handler"
        /\ call.trace[1].i = handlers[call.req].id
        /\ call.outcome = "returned" =>
              /\ call.err = call.trace[1].err
              /\ call.err = NoErr =>
                     call.val = AsResponse(call.trace[1].val, call.want)

(***************************************************************************)
(* C9: every Send returns, with a nil error and a response, or with a      *)
(* non-nil error and the zero value of the expected response type.         *)
(***************************************************************************)
C9_ErrorOrResponse ==
    IsSend =>
        /\ call.outcome = "returned"
        /\ call.err # NoErr => call.val = Zero(call.want)

\* What of C9 the code does satisfy: a Send that returns an error returns no
\* response with it, also when a body returned both.
C9_NoResponseWithError ==
    (IsSend /\ call.outcome = "returned" /\ call.err # NoErr) =>
        call.val = Zero(call.want)

\* The ids of the listeners that ran, in the order they ran.
ListenerIds == [j \in 1..Len(call.trace) |-> call.trace[j].i]

\* The listeners run in registration order and none runs behind one that
\* returned an error; SendEvent returns the error of the last one that ran
\* if it returned one, and otherwise nil after all of them ran.
FanOutContract ==
    /\ IsPrefix(ListenerIds, IdsOf(ListenersOf(call.want)))
    /\ \A j \in 1..(Len(call.trace) - 1) : call.trace[j].err = NoErr
    /\ call.outcome = "returned"
    /\ IF call.trace # <<>> /\ call.trace[Len(call.trace)].err # NoErr
       THEN call.err = call.trace[Len(call.trace)].err
       ELSE /\ Len(call.trace) = Len(ListenersOf(call.want))
            /\ call.err = NoErr

(***************************************************************************)
(* C7: SendEvent runs the listeners of the event's type one at a time in   *)
(* registration order; it returns the error of the first listener that     *)
(* returns one, after which no listener runs; when no listener returns an  *)
(* error, all run and nil is returned.                                     *)
(***************************************************************************)
C7_FanOut == IsSendEvent => FanOutContract

\* What of C7 the code does satisfy: the same, for an event that is not nil.
C7_FanOutOfNonNilEvent == (IsSendEvent /\ call.req # NilType) => FanOutContract

(***************************************************************************)
(* C8: SendEvent runs only listeners registered under the event's exact    *)
(* type TEvent, never one registered under another type, be it a type the  *)
(* event's type is assignable to; a SendEvent that returns nil has run all *)
(* of them, and with none registered under TEvent it returns nil having    *)
(* run nothing.                                                            *)
(***************************************************************************)
C8_ExactEventType ==
    IsSendEvent =>
        /\ \A j \in 1..Len(call.trace) :
              \E k \in 1..Len(ListenersOf(call.want)) :
                  ListenersOf(call.want)[k].id = call.trace[j].i
        /\ (call.outcome = "returned" /\ call.err = NoErr) =>
              ListenerIds = IdsOf(ListenersOf(call.want))
        /\ call.want \notin DOMAIN eventHandlers =>
              /\ call.outcome = "returned"
              /\ call.err = NoErr
              /\ call.trace = <<>>

\* Listeners registered under A and under I, an event sent as an A: the
\* listeners of A ran.
C8_Witness ==
    /\ IsSendEvent
    /\ call.want = "A"
    /\ "I" \in DOMAIN eventHandlers
    /\ call.trace # <<>>

\* Listeners registered only under I, an event sent as an A: nothing ran.
C8_WitnessNoListener ==
    /\ IsSendEvent
    /\ call.want = "A"
    /\ DOMAIN eventHandlers = {"I"}
    /\ call.outcome = "returned"
    /\ call.trace = <<>>

\* The last entry of the trace of a Send that ran the pipeline: what the
\* outermost step returned to mediator.Send.
Outermost == call.trace[Len(call.trace)]

\* trace[j] is a stage returning an error to the stage around it.
ReturnsError(j) ==
    /\ call.trace[j].ev \in {"handler", "post"}
    /\ call.trace[j].err # NoErr

\* Every stage around the one returning at trace[j] returns to the stage
\* around it what trace[j] returned.
PassedBackUnchanged(j) ==
    \A k \in (j + 1)..Len(call.trace) :
        /\ call.trace[k].ev = "post"
        /\ call.trace[k].val = call.trace[j].val
        /\ call.trace[k].err = call.trace[j].err

(***************************************************************************)
(* C11: when the handler or a behaviour returns an error and every         *)
(* behaviour around it returns next()'s result as is, Send returns that    *)
(* very error to the caller.                                               *)
(***************************************************************************)
C11_ErrorUnchanged ==
    IsSend =>
        \A j \in 1..Len(call.trace) :
            (ReturnsError(j) /\ PassedBackUnchanged(j)) =>
                /\ call.outcome = "returned"
                /\ call.err = call.trace[j].err

\* What of C11 the code does satisfy: a Send that returns, returns that
\* error.
C11_ErrorUnchangedIfReturned ==
    (IsSend /\ call.outcome = "returned") =>
        \A j \in 1..Len(call.trace) :
            (ReturnsError(j) /\ PassedBackUnchanged(j)) =>
                call.err = call.trace[j].err

\* mediator.Send returned a nil response: on one of its two error returns,
\* on an error of the pipeline, or because the pipeline returned nil.
YieldsNil ==
    /\ IsSend
    /\ call.req # NilType
    /\ \/ ~Reached
       \/ /\ call.trace # <<>>
          /\ Outermost.err # NoErr \/ Outermost.val = Nil

(***************************************************************************)
(* C14: whenever mediator.Send yields a nil response, Send[TResponse]      *)
(* returns, and returns the zero value of TResponse, for every TResponse,  *)
(* an interface type included.                                             *)
(***************************************************************************)
C14_NilBecomesZero ==
    YieldsNil =>
        /\ call.outcome = "returned"
        /\ call.val = Zero(call.want)

\* What of C14 the code does satisfy: the same, for a TResponse that is not
\* an interface type.
C14_NilBecomesZeroOfConcrete ==
    (YieldsNil /\ call.want \in ConcreteTypes) =>
        /\ call.outcome = "returned"
        /\ call.val = Zero(call.want)

(***************************************************************************)
(* C16: when the pipeline of a Send returns a value and a nil error, Send  *)
(* returns, and what it returns is a TResponse, whatever the type of the   *)
(* value a behaviour returned.                                             *)
(***************************************************************************)
C16_ResponseConverts ==
    (/\ Reached
     /\ call.trace # <<>>
     /\ Outermost.err = NoErr
     /\ Outermost.val # Nil) =>
        /\ call.outcome = "returned"
        /\ call.err = NoErr
        /\ AssignableTo(call.val.t, call.want)

\* What of C16 the code does satisfy: the same, when the value the pipeline
\* returns is a TResponse.
C16_ResponseOfRightTypeConverts ==
    (/\ Reached
     /\ call.trace # <<>>
     /\ Outermost.err = NoErr
     /\ Outermost.val # Nil
     /\ AssignableTo(Outermost.val.t, call.want)) =>
        /\ call.outcome = "returned"
        /\ call.err = NoErr
        /\ call.val = Outermost.val

(***************************************************************************)
(* C17: a Send of a request that has no registered handler returns the     *)
(* HandlerNotFound error and does not crash, a nil request included.       *)
(* Stated for a TResponse that is not an interface type, for which the     *)
(* returned error reaches the caller.                                      *)
(***************************************************************************)
C17_NilRequestNotFound ==
    (/\ IsSend
     /\ call.req \notin DOMAIN handlers
     /\ call.want \in ConcreteTypes) =>
        /\ call.outcome = "returned"
        /\ call.err = HandlerNotFound(call.req)

\* What of C17 the code does satisfy: the same, for a request that is not
\* nil.
C17_NonNilRequestNotFound ==
    (/\ IsSend
     /\ call.req \notin DOMAIN handlers
     /\ call.req # NilType
     /\ call.want \in ConcreteTypes) =>
        /\ call.outcome = "returned"
        /\ call.err = HandlerNotFound(call.req)

\* The entries of the trace that are the stage ev of id i.
Entries(ev, i) ==
    {j \in 1..Len(call.trace) : call.trace[j].ev = ev /\ call.trace[j].i = i}

\* The outermost continuation: the first matching behaviour, or the handler
\* when no behaviour matches.
OutermostStage ==
    IF Matching = <<>> THEN <<"handler", handlers[call.req].id>>
    ELSE <<"pre", Matching[1].id>>

(***************************************************************************)
(* C18: in a Send that passes the two dispatch checks, with behaviours     *)
(* that call next() at most once, every matching behaviour and the handler *)
(* is invoked at most once, the handler is invoked exactly when every      *)
(* matching behaviour called next(), and the outermost continuation is     *)
(* invoked exactly once, by mediator.Send, before anything else.           *)
(***************************************************************************)
C18_AtMostOnce ==
    Reached =>
        /\ \A k \in 1..Len(Matching) :
              /\ Cardinality(Entries("pre", Matching[k].id)) <= 1
              /\ Cardinality(Entries("post", Matching[k].id)) <= 1
        /\ Cardinality(Entries("handler", handlers[call.req].id)) <= 1
        /\ HandlerRan <=> (NoShortCircuit /\ PreIds = IdsOf(Matching))
        /\ call.trace # <<>>
        /\ <<call.trace[1].ev, call.trace[1].i>> = OutermostStage
        /\ Cardinality(Entries(OutermostStage[1], OutermostStage[2])) = 1

\* Two matching behaviours and the handler, each run once.
C18_Witness ==
    /\ Reached
    /\ Len(Matching) >= 2
    /\ HandlerRan
    /\ Len(call.trace) = 2 * Len(Matching) + 1

\* Two matching behaviours, the second of which does not call next().
C18_WitnessShortCircuit ==
    /\ Reached
    /\ Len(Matching) >= 2
    /\ ShortCircuitAt(2)
    /\ ~HandlerRan

\* The recorded Send repeats prior: the same input on the same registries.
Repeated ==
    /\ IsSend
    /\ prior.call.op = "Send"
    /\ prior.input = input
    /\ prior.handlers = handlers
    /\ prior.behaviours = behaviours

(***************************************************************************)
(* C15: on unchanged registries, a request sent a second time to bodies    *)
(* that do the same again ends the same way, with the same response and    *)
(* error, having run the same stages in the same order with the same       *)
(* results.                                                                *)
(***************************************************************************)
C15_SameTwice == Repeated => call = prior.call

\* A request sent twice through a matching behaviour to the handler.
C15_Witness ==
    /\ Repeated
    /\ Reached
    /\ Matching # <<>>
    /\ HandlerRan
    /\ call.outcome = "returned"

\* The recorded Send entered the behaviour registered k-th.
Entered(c, k) == \E j \in 1..Len(c.trace) : c.trace[j].ev = "pre" /\ c.trace[j].i = k

\* A behaviour registered before the k-th one returned without calling
\* next().
CutOffBefore(k) ==
    \E j \in 1..Len(call.trace) : ShortCircuitAt(j) /\ call.trace[j].i < k

(***************************************************************************)
(* C19: a Send that passes the two dispatch checks enters exactly the      *)
(* behaviours registered by then that match its request and are not cut    *)
(* off by one before them, whenever they and the handler were registered   *)
(* and whatever was sent before; and a Send that completed earlier entered *)
(* no behaviour registered after it.                                       *)
(***************************************************************************)
C19_ComposedAtSend ==
    /\ Reached =>
          \A k \in 1..Len(behaviours) :
              Entered(call, k) <=>
                  /\ AssignableTo(call.req, behaviours[k].requestType)
                  /\ ~CutOffBefore(k)
    /\ prior.call.op = "Send" =>
          \A k \in 1..Len(behaviours) :
              Entered(prior.call, k) => k <= Len(prior.behaviours)

\* A request sent to its handler, then a matching behaviour registered,
\* then the request sent again: the later Send enters the behaviour, the
\* earlier one did not.
C19_Witness ==
    /\ Reached
    /\ prior.call.op = "Send"
    /\ prior.call.req = call.req
    /\ prior.handlers = handlers
    /\ Len(behaviours) = Len(prior.behaviours) + 1
    /\ Entered(call, Len(behaviours))
    /\ ~Entered(prior.call, Len(behaviours))
    /\ HandlerRan

\* The entry goroutine g registered is in the registry: among the
\* behaviours, among the listeners of its event type, or, unless another
\* goroutine registers a handler for the same request type, in the handler
\* map.
InRegistry(g) ==
    LET e == goroutines[g].entry
    IN CASE goroutines[g].op = "RegisterBehaviour" ->
              \E k \in 1..Len(behaviours) : behaviours[k] = e
         [] goroutines[g].op = "RegisterEventHandler" ->
              /\ e.eventType \in DOMAIN eventHandlers
              /\ \E k \in 1..Len(eventHandlers[e.eventType]) :
                    eventHandlers[e.eventType][k] = e
         [] goroutines[g].op = "RegisterHandler" ->
              \/ \E h \in Goroutines \ {g} :
                    /\ goroutines[h].op = "RegisterHandler"
                    /\ goroutines[h].entry.requestType = e.requestType
              \/ /\ e.requestType \in DOMAIN handlers
                 /\ handlers[e.requestType] = e
         [] OTHER -> TRUE

Returned(g) == goroutines[g].pc = "done"

\* The goroutines that register a handler do so for different request types.
DistinctRequestTypes ==
    \A g \in Goroutines :
        \A h \in Goroutines \ {g} :
            (goroutines[g].op = "RegisterHandler" /\ goroutines[h].op = "RegisterHandler")
                => goroutines[g].entry.requestType # goroutines[h].entry.requestType

(***************************************************************************)
(* C12: goroutines registering concurrently on one mediator, handlers for   *)
(* different request types, never stop the program, and once all of them   *)
(* have returned the registries hold the registration of each.             *)
(***************************************************************************)
C12_NoRegistrationLost ==
    DistinctRequestTypes =>
        /\ ~Fatal
        /\ (\A g \in Goroutines : Returned(g)) => \A g \in Goroutines : InRegistry(g)

\* What of C12 the code does satisfy: the registration of a goroutine that
\* ran alone is in the registry.
C12_RegisteredAlone ==
    \A g \in Goroutines :
        (Returned(g) /\ \A h \in Goroutines \ {g} : goroutines[h].pc = "idle") =>
            InRegistry(g)

Dispatches(g) == goroutines[g].op \in {"Send", "SendEvent"}

\* What the dispatch of goroutine g returns when it runs alone, on the
\* registries as they are.
Alone(g) ==
    LET in == goroutines[g].in
    IN IF goroutines[g].op = "Send"
       THEN Call("Send", ReflectTypeOf(in.request), in.TResponse,
                 SendResult(in.request, in.TResponse, in.plan, in.hbody))
       ELSE Call("SendEvent", ReflectTypeOf(in.request), in.TResponse,
                 SendEventResult(in.request, in.TResponse, in.plan))

SameAsAlone ==
    \A g \in Goroutines : (Dispatches(g) /\ Returned(g)) => goroutines[g].out = Alone(g)

\* A step of a dispatch: of a goroutine, or of the single caller.
Dispatching ==
    \/ \E g \in Goroutines : goroutines'[g] # goroutines[g] /\ Dispatches(g)'
    \/ call' # call /\ call' # NoCall

(***************************************************************************)
(* C13: no step of a Send or a SendEvent changes the handler map, the      *)
(* behaviour sequence or a listener sequence, whether the dispatch returns *)
(* a response or an error and whatever other dispatches are under way; and *)
(* every dispatch made concurrently with others returns what it returns    *)
(* when run alone.                                                         *)
(***************************************************************************)
C13_NoMutation ==
    /\ []SameAsAlone
    /\ [][Dispatching => UNCHANGED <<handlers, behaviours, eventHandlers>>]_vars

\* Two goroutines have sent the request through a behaviour to the handler,
\* and both have returned.
C13_Witness ==
    \A g \in Goroutines :
        /\ Returned(g)
        /\ goroutines[g].op = "Send"
        /\ goroutines[g].out.outcome = "returned"
        /\ Len(goroutines[g].out.trace) >= 3

\* Two goroutines have sent an event, and a listener has returned an error
\* to each.
C13_WitnessEvent ==
    \A g \in Goroutines :
        /\ Returned(g)
        /\ goroutines[g].op = "SendEvent"
        /\ goroutines[g].out.err # NoErr

====
